---------------------------- MODULE Spec2Model ----------------------------
(***************************************************************************)
(* Model of the e-paper grayscale tester (generate_test_image.py).         *)
(*                                                                         *)
(* A raster buffer is modelled by one row of it: a sequence of 8-bit       *)
(* intensities.  Every transform of the program works on each row of a     *)
(* buffer alike (the strips are constant down a column, quantisation and   *)
(* the remap are per pixel).                                               *)
(*                                                                         *)
(* Floating point.  The program computes in IEEE-754 doubles.  The model   *)
(* computes in integers; where the double result differs from the exact    *)
(* one the difference is modelled (GradientShortfall).  For the quantizer  *)
(* the double evaluation agrees with the integer one on all 4 * 256        *)
(* (bits, pixel) inputs.                                                   *)
(***************************************************************************)
EXTENDS Integers, Sequences, FiniteSets, TLC

VARIABLES
    pc,        \* control position of the operation or run being modelled
    bits,      \* bit depth in use
    image,     \* input buffer of the transform
    raw,       \* buffer read back from the external dithering engine
    result,    \* buffer returned by the transform
    final,     \* buffer returned by the quantizer run on `result`
    files,     \* temporary files present on disk
    fault,     \* step of apply_dithering that raised, or "none"
    secIdx,    \* index into bit_depths of the section being created
    row,       \* position inside create_section
    applied,   \* transforms applied to each strip of the current section
    sections,  \* completed sections, each with its bit depth and transforms
    saved      \* the output PNG has been written

vars == <<pc, bits, image, raw, result, final, files, fault,
          secIdx, row, applied, sections, saved>>

---------------------------------------------------------------------------
(* Bounds *)

MaxWidth == 40

MaxSkew == 1

---------------------------------------------------------------------------
(* Arithmetic helpers *)

Pixels == 0..255

bit_depths == <<1, 2, 3, 4>>

BitDepths == {bit_depths[k] : k \in 1..Len(bit_depths)}

RECURSIVE GCD(_, _)
GCD(a, b) == IF b = 0 THEN a ELSE GCD(b, a % b)

\* a mutation of the rounding: truncation instead of round-to-nearest
RoundDown(num, den) == num \div den

\* np.round of num/den (round half to even)
RoundHalfEven(num, den) ==
    LET q == num \div den
        r == num % den
    IN  IF 2 * r < den THEN q
        ELSE IF 2 * r > den THEN q + 1
        ELSE IF q % 2 = 0 THEN q ELSE q + 1

---------------------------------------------------------------------------
(* quantize_to_bits *)

\* one pixel: normalized = v / 255.0; quantized = round(normalized *
\* (levels - 1)) / (levels - 1); (quantized * 255).astype(uint8) truncates
QuantizePixel(v, b) ==
    LET levels == 2 ^ b
        index  == RoundHalfEven(v * (levels - 1), 255)
    IN  (index * 255) \div (levels - 1)

quantize_to_bits(img, b) ==
    [x \in 1..Len(img) |-> QuantizePixel(img[x], b)]

---------------------------------------------------------------------------
(* create_grayscale_strip, mode "gradient": the drawn row *)

\* reduced fractions n/d (coded 1000*d + n) for which the double value of
\* 255 * (1 - n/d) lies just below the exact integer, so int() yields one
\* less than the exact quotient
GradientShortfall ==
    {5004, 15013, 15014, 17005, 17006, 17011, 17012,
     51028, 51041, 51044, 51046, 51049,
     85041, 85044, 85047, 85052, 85063, 85066, 85071, 85074, 85076,
     85079, 85082, 85084,
     255043, 255059, 255074, 255091, 255106, 255107, 255122, 255133,
     255148, 255149, 255157, 255164, 255172, 255173, 255181, 255188,
     255196, 255197, 255206, 255212, 255214, 255229, 255236, 255244,
     255253, 255254}

\* a mutation of the gradient: progress = x / width, never reaching 1
GradientValueShort(x, width) == (255 * (width - x)) \div width

\* gray_value of column x (0-based) of a gradient `width` wide
GradientValue(x, width) ==
    IF width > 1
    THEN LET g     == GCD(x, width - 1)
             exact == (255 * (width - 1 - x)) \div (width - 1)
         IN  IF (1000 * ((width - 1) \div g) + (x \div g)) \in GradientShortfall
             THEN exact - 1 ELSE exact
    ELSE 255

GradientRow(width) == [x \in 1..width |-> GradientValue(x - 1, width)]

---------------------------------------------------------------------------
(* Specification of the quantizer as a function of its inputs *)

QuantizerInputs ==
    {<<v>> : v \in Pixels} \cup {GradientRow(w) : w \in 1..MaxWidth}

InitQuantize ==
    /\ pc = "input"
    /\ bits \in BitDepths
    /\ image \in QuantizerInputs
    /\ raw = <<>>
    /\ result = <<>>
    /\ final = <<>>
    /\ files = {}
    /\ fault = "none"
    /\ secIdx = 0
    /\ row = 0
    /\ applied = <<>>
    /\ sections = <<>>
    /\ saved = FALSE

Quantize ==
    /\ pc = "input"
    /\ result' = quantize_to_bits(image, bits)
    /\ pc' = "quantized"
    /\ UNCHANGED <<bits, image, raw, final, files, fault,
                   secIdx, row, applied, sections, saved>>

Requantize ==
    /\ pc = "quantized"
    /\ final' = quantize_to_bits(result, bits)
    /\ pc' = "requantized"
    /\ UNCHANGED <<bits, image, raw, result, files, fault,
                   secIdx, row, applied, sections, saved>>

NextQuantize == Quantize \/ Requantize

SpecQuantize == InitQuantize /\ [][NextQuantize]_vars

---------------------------------------------------------------------------
(* Properties of the quantizer *)

\* the level set { round(255 * i / (L - 1)) : i in 0..L-1 }
CanonicalLevelSet(b) ==
    {RoundHalfEven(255 * i, 2 ^ b - 1) : i \in 0..(2 ^ b - 1)}

Abs(n) == IF n < 0 THEN -n ELSE n

\* C1: the quantizer returns a buffer of the same dimensions in which every
\* pixel is the member of the canonical level set nearest to the input pixel
C1_QuantizeNearestCanonical ==
    pc = "quantized" =>
        /\ Len(result) = Len(image)
        /\ \A x \in 1..Len(image) :
              /\ result[x] \in CanonicalLevelSet(bits)
              /\ \A c \in CanonicalLevelSet(bits) :
                    Abs(result[x] - image[x]) <= Abs(c - image[x])

\* C9: quantizing a quantizer output again with the same bit depth returns
\* it unchanged
C9_QuantizeIdempotent ==
    pc = "requantized" => final = result

C9_Witness ==
    /\ pc = "requantized"
    /\ result # image
    /\ final = result

NonIncreasing(s) == \A x \in 2..Len(s) : s[x] <= s[x - 1]

Runs(s) == Cardinality({x \in 1..Len(s) : x = 1 \/ s[x] # s[x - 1]})

\* C10: the quantized gradient is non-increasing from left to right, has
\* exactly 2^bits runs of constant value when the width is at least 2^bits
\* and at most `width` runs when it is less
C10_GradientBands ==
    \A w \in 1..MaxWidth :
        (pc = "quantized" /\ image = GradientRow(w)) =>
            /\ NonIncreasing(result)
            /\ (w >= 2 ^ bits => Runs(result) = 2 ^ bits)
            /\ (w < 2 ^ bits => Runs(result) <= w)

C10_Witness ==
    /\ pc = "quantized"
    /\ bits = 4
    /\ Len(image) > 2 ^ bits
    /\ image = GradientRow(Len(image))
    /\ Runs(result) = 16
    /\ Runs(image) > 16

---------------------------------------------------------------------------
(* apply_dithering *)

DitherWidth == 18

\* gray values the external engine may hand back
EngineGrays ==
    {0, 1, 17, 36, 40, 72, 73, 85, 109, 128, 146, 170, 182, 200, 219,
     254, 255}

MinOf(S) == CHOOSE m \in S : \A n \in S : m <= n

MaxOf(S) == CHOOSE m \in S : \A n \in S : m >= n

\* sorted(unique_vals)
RECURSIVE sorted(_)
sorted(S) ==
    IF S = {} THEN <<>> ELSE <<MinOf(S)>> \o sorted(S \ {MinOf(S)})

\* np.unique(arr), as a set
unique_vals(arr) == {arr[x] : x \in 1..Len(arr)}

\* a mutation of the target: rounded instead of truncated
target_val_rounded(i, levels) == RoundHalfEven(255 * i, levels - 1)

\* target_val = int(255 * i / (levels - 1))
target_val(i, levels) == (255 * i) \div (levels - 1)

\* the loop of lines 70-72 from its step i (1-based) on: every pixel that
\* holds vals[i] NOW is overwritten, in place
RECURSIVE RemapFrom(_, _, _, _)
RemapFrom(arr, vals, i, levels) ==
    IF i > Len(vals) THEN arr
    ELSE RemapFrom([x \in 1..Len(arr) |->
                       IF arr[x] = vals[i] THEN target_val(i - 1, levels)
                       ELSE arr[x]],
                   vals, i + 1, levels)

\* a mutation of the guard: remap also when fewer levels came back
ShouldRemapAtMost(arr, levels) ==
    /\ MaxOf(unique_vals(arr)) > MinOf(unique_vals(arr))
    /\ Cardinality(unique_vals(arr)) <= levels

\* arr.max() > arr.min() and len(unique_vals) == levels
ShouldRemap(arr, levels) ==
    /\ MaxOf(unique_vals(arr)) > MinOf(unique_vals(arr))
    /\ Cardinality(unique_vals(arr)) = levels

\* lines 64-73: the buffer returned for the engine result arr
PostProcess(arr, levels) ==
    IF ShouldRemap(arr, levels)
    THEN RemapFrom(arr, sorted(unique_vals(arr)), 1, levels)
    ELSE arr

\* the steps of apply_dithering that can raise
FaultPoints ==
    {"none", "create_in", "save_in", "engine", "create_out", "save_out",
     "open_out", "unlink_out", "unlink_in"}

\* the temporary files on disk when apply_dithering ends with fault f:
\* both are created with delete=False and removed only by the two unlink
\* calls at the end of the normal path
FilesLeft(f) ==
    CASE f \in {"none", "create_in"} -> {}
      [] f \in {"save_in", "engine", "create_out", "unlink_in"} -> {"tmp_in"}
      [] f \in {"save_out", "open_out", "unlink_out"} -> {"tmp_in", "tmp_out"}

\* the sets of distinct values the engine result may hold for bit depth b
Palettes(b) ==
    {S \in SUBSET EngineGrays :
        \/ Cardinality(S) = 1
        \/ /\ Cardinality(S) >= 2 ^ b - MaxSkew
           /\ Cardinality(S) <= 2 ^ b + MaxSkew
           /\ Cardinality(S) >= 1}

\* an engine result `width` wide whose pixels cycle through the palette S
EngineRow(S, width) ==
    LET palette == sorted(S)
    IN  [x \in 1..width |-> palette[((x - 1) % Len(palette)) + 1]]

InitDither ==
    /\ pc = "call"
    /\ bits \in BitDepths
    /\ image = GradientRow(DitherWidth)
    /\ raw = <<>>
    /\ result = <<>>
    /\ final = <<>>
    /\ files = {}
    /\ fault = "none"
    /\ secIdx = 0
    /\ row = 0
    /\ applied = <<>>
    /\ sections = <<>>
    /\ saved = FALSE

\* a call of apply_dithering that returns
DitherReturns ==
    /\ pc = "call"
    /\ \E S \in Palettes(bits) :
          /\ raw' = EngineRow(S, Len(image))
          /\ result' = PostProcess(raw', 2 ^ bits)
    /\ fault' = "none"
    /\ files' = FilesLeft("none")
    /\ pc' = "returned"
    /\ UNCHANGED <<bits, image, final, secIdx, row, applied, sections, saved>>

\* a call of apply_dithering that raises at step f
DitherRaises ==
    /\ pc = "call"
    /\ \E f \in FaultPoints \ {"none"} :
          /\ fault' = f
          /\ files' = FilesLeft(f)
    /\ pc' = "raised"
    /\ UNCHANGED <<bits, image, raw, result, final,
                   secIdx, row, applied, sections, saved>>

\* create_text_sample, lines 174-175: the dithered image is quantized
QuantizeDithered ==
    /\ pc = "returned"
    /\ final' = quantize_to_bits(result, bits)
    /\ pc' = "requantized"
    /\ UNCHANGED <<bits, image, raw, result, files, fault,
                   secIdx, row, applied, sections, saved>>

NextDither == DitherReturns \/ DitherRaises \/ QuantizeDithered

SpecDither == InitDither /\ [][NextDither]_vars

---------------------------------------------------------------------------
(* Properties of apply_dithering *)

\* C2: when the engine result has 2^bits distinct values, every pixel of
\* the returned buffer is a member of the canonical level set
C2_DitherCanonical ==
    (pc = "returned" /\ Cardinality(unique_vals(raw)) = 2 ^ bits) =>
        \A x \in 1..Len(result) : result[x] \in CanonicalLevelSet(bits)

\* the position (0-based) of value v among the sorted distinct values of arr
RankIn(arr, v) == Cardinality({u \in unique_vals(arr) : u < v})

\* C3: when the engine result has L = 2^bits distinct values, a pixel
\* holding the i-th smallest of them holds the i-th canonical level after
\* the remap, pixels that differed still differ, and the output has L
\* distinct values
C3_RemapByRank ==
    (pc = "returned" /\ Cardinality(unique_vals(raw)) = 2 ^ bits) =>
        /\ LET canonical == sorted(CanonicalLevelSet(bits))
           IN  \A x \in 1..Len(raw) :
                  result[x] = canonical[RankIn(raw, raw[x]) + 1]
        /\ \A x, y \in 1..Len(raw) : raw[x] # raw[y] => result[x] # result[y]
        /\ Cardinality(unique_vals(result)) = 2 ^ bits

\* C4: when a call of apply_dithering has ended, by return or by raising,
\* no temporary file is left on disk
C4_NoTempFileLeft ==
    pc \in {"returned", "raised"} => files = {}

TargetLevels(b) == {target_val(i, 2 ^ b) : i \in 0..(2 ^ b - 1)}

QuantizerRange(b) == {QuantizePixel(v, b) : v \in Pixels}

\* C7: the values the remap writes are exactly the values the quantizer can
\* return for the same bit depth, and a remapped buffer is returned
\* unchanged by the quantizer
C7_RemapMatchesQuantizer ==
    (pc \in {"returned", "requantized"} /\ ShouldRemap(raw, 2 ^ bits)) =>
        /\ TargetLevels(bits) = QuantizerRange(bits)
        /\ pc = "requantized" => final = result

C7_Witness ==
    /\ pc = "requantized"
    /\ bits = 3
    /\ ShouldRemap(raw, 2 ^ bits)
    /\ result # raw
    /\ final = result

\* C8: when the number of distinct values of the engine result differs
\* from 2^bits, the engine result is returned unchanged
C8_NoRemapOnMismatch ==
    (pc = "returned" /\ Cardinality(unique_vals(raw)) # 2 ^ bits) =>
        result = raw

C8_Witness ==
    /\ pc = "returned"
    /\ Cardinality(unique_vals(raw)) > 1
    /\ Cardinality(unique_vals(raw)) < 2 ^ bits
    /\ unique_vals(raw) \cap TargetLevels(bits) = {}
    /\ result = raw

---------------------------------------------------------------------------
(* The layout composer: which transform each row of a section goes through *)

\* a mutation of the strip: the `dithered` flag is ignored
create_grayscale_strip_undithered(mode, dithered, target_bits) ==
    IF mode = "native" THEN <<"quantize">>
    ELSE IF target_bits < 4 THEN <<"quantize">>
    ELSE IF mode = "gradient" /\ target_bits = 4 THEN <<>>
    ELSE <<"quantize">>

\* create_grayscale_strip: the transforms applied to the drawn strip
create_grayscale_strip(mode, dithered, target_bits) ==
    IF mode = "native" THEN <<"quantize">>
    ELSE IF target_bits < 4 /\ dithered THEN <<"dither">>
    ELSE IF target_bits < 4 THEN <<"quantize">>
    ELSE IF mode = "gradient" /\ target_bits = 4 THEN <<>>
    ELSE <<"quantize">>

\* create_text_sample: the transforms applied to the rendered text
create_text_sample(antialiased, dithered, target_bits) ==
    (IF target_bits < 4 /\ dithered THEN <<"dither">> ELSE <<>>)
        \o <<"quantize">>

\* add_text_label: the transform applied to the rendered label
add_text_label(bit_depth) ==
    IF bit_depth < 4 THEN <<"dither">> ELSE <<"quantize">>

\* positions inside create_section
NativeRow == 1
BlocksRow == 2
GradientRow3 == 3
LastRow == 9

StripMode(r) ==
    CASE r = NativeRow -> "native"
      [] r = BlocksRow -> "16_blocks"
      [] r = GradientRow3 -> "gradient"

\* the `dithered` argument create_section passes for the strip at row r
StripDithered(r, bit_depth) ==
    IF r = NativeRow THEN FALSE ELSE bit_depth < 4

\* the arguments create_section passes for the text sample at row r:
\* rows 4, 6, 8 are text1, text2, text3
TextAntialiased(r) == r # 4

TextDithered(r, bit_depth) == IF r = 6 THEN bit_depth < 4 ELSE FALSE

\* a mutation of the propagation: the failure is swallowed and the section
\* goes on
AfterCallCaught(f) == "section"

\* no handler stands between apply_dithering and main: a call that raises
\* ends the run, a call that returns lets create_section go on
AfterCall(f) == IF f = "none" THEN "section" ELSE "aborted"

\* the faults a row with the transforms ops can meet: only apply_dithering
\* touches the engine and the temporary files
RowFaults(ops) ==
    IF \E k \in 1..Len(ops) : ops[k] = "dither" THEN FaultPoints ELSE {"none"}

\* one row of create_section is produced with the transforms ops, or the
\* apply_dithering call in it raises
ProduceRow(ops) ==
    \E f \in RowFaults(ops) :
        /\ pc' = AfterCall(f)
        /\ fault' = IF f = "none" THEN fault ELSE f
        /\ files' = FilesLeft(f)
        /\ IF pc' = "section"
           THEN /\ applied' = Append(applied, ops)
                /\ row' = row + 1
           ELSE UNCHANGED <<applied, row>>
        /\ UNCHANGED <<bits, image, raw, result, final, secIdx, sections, saved>>

Init ==
    /\ pc = "loop"
    /\ bits = 0
    /\ image = <<>>
    /\ raw = <<>>
    /\ result = <<>>
    /\ final = <<>>
    /\ files = {}
    /\ fault = "none"
    /\ secIdx = 0
    /\ row = 0
    /\ applied = <<>>
    /\ sections = <<>>
    /\ saved = FALSE

\* generate_test_image enters the loop body and calls create_section
StartSection ==
    /\ pc = "loop"
    /\ secIdx < Len(bit_depths)
    /\ bits' = bit_depths[secIdx + 1]
    /\ row' = 1
    /\ applied' = <<>>
    /\ pc' = "section"
    /\ UNCHANGED <<image, raw, result, final, files, fault,
                   secIdx, sections, saved>>

CreateStrip ==
    /\ pc = "section"
    /\ row \in {NativeRow, BlocksRow, GradientRow3}
    /\ ProduceRow(create_grayscale_strip(StripMode(row),
                                         StripDithered(row, bits), bits))

CreateTextSample ==
    /\ pc = "section"
    /\ row \in {4, 6, 8}
    /\ ProduceRow(create_text_sample(TextAntialiased(row),
                                     TextDithered(row, bits), bits))

AddTextLabel ==
    /\ pc = "section"
    /\ row \in {5, 7, 9}
    /\ ProduceRow(add_text_label(bits))

\* create_section returns; the section is pasted and labelled
FinishSection ==
    /\ pc = "section"
    /\ row = LastRow + 1
    /\ sections' = Append(sections, [bit_depth |-> bits, rows |-> applied])
    /\ secIdx' = secIdx + 1
    /\ pc' = "loop"
    /\ UNCHANGED <<bits, image, raw, result, final, files, fault,
                   row, applied, saved>>

\* test_image.save(output_path)
SaveImage ==
    /\ pc = "loop"
    /\ secIdx = Len(bit_depths)
    /\ saved' = TRUE
    /\ pc' = "done"
    /\ UNCHANGED <<bits, image, raw, result, final, files, fault,
                   secIdx, row, applied, sections>>

Next ==
    \/ StartSection
    \/ CreateStrip
    \/ CreateTextSample
    \/ AddTextLabel
    \/ FinishSection
    \/ SaveImage

Spec == Init /\ [][Next]_vars

---------------------------------------------------------------------------
(* Properties of the composer and of the run *)

\* the rows of every section whose three strips have been produced
StripRows ==
    {[bit_depth |-> sections[k].bit_depth, rows |-> sections[k].rows] :
        k \in 1..Len(sections)}
    \cup (IF pc = "section" /\ Len(applied) >= GradientRow3
          THEN {[bit_depth |-> bits, rows |-> applied]} ELSE {})

\* C5 as stated: the native strip goes through the quantizer only, the
\* 16-level block strip and the gradient strip through the ditherer when
\* bits < 4 and through the quantizer when bits = 4
C5_StripProcessing ==
    \A s \in StripRows :
        /\ s.rows[NativeRow] = <<"quantize">>
        /\ s.rows[BlocksRow] =
              IF s.bit_depth < 4 THEN <<"dither">> ELSE <<"quantize">>
        /\ s.rows[GradientRow3] =
              IF s.bit_depth < 4 THEN <<"dither">> ELSE <<"quantize">>

\* C5 amended: the native strip goes through the quantizer only, the
\* 16-level block strip through the ditherer when bits < 4 and through the
\* quantizer when bits = 4, the gradient strip through the ditherer when
\* bits < 4 and through no transform at all when bits = 4
C5_StripProcessingAmended ==
    \A s \in StripRows :
        /\ s.rows[NativeRow] = <<"quantize">>
        /\ s.rows[BlocksRow] =
              IF s.bit_depth < 4 THEN <<"dither">> ELSE <<"quantize">>
        /\ s.rows[GradientRow3] =
              IF s.bit_depth < 4 THEN <<"dither">> ELSE <<>>

C5_Witness ==
    /\ Len(sections) = Len(bit_depths)
    /\ sections[1].rows[GradientRow3] = <<"dither">>
    /\ sections[4].bit_depth = 4
    /\ sections[4].rows[GradientRow3] = <<>>

\* C6: a failure inside apply_dithering ends the run at once: from then on
\* no row and no section is added and the output is never written; the
\* output is written only when all four sections are complete and nothing
\* has failed
C6_FailureAborts ==
    [][ /\ fault' # "none" =>
              /\ pc' = "aborted"
              /\ ~saved'
        /\ fault # "none" =>
              /\ sections' = sections
              /\ applied' = applied
        /\ saved' =>
              /\ Len(sections') = Len(bit_depths)
              /\ fault' = "none" ]_vars

C6_Witness ==
    /\ pc = "aborted"
    /\ fault = "engine"
    /\ Len(sections) = 2
    /\ ~saved

===========================================================================
